---- MODULE Spec2Model ----
(***************************************************************************)
(* The two listing pages of the repository, pastPaperPage                  *)
(* (src/unnamed/part_000) and forum                                        *)
(* (src/Cursor/User/History/-2eec648e/TzAu.tsx): request parameters are    *)
(* parsed, the dataset is tag-filtered (mock data in development mode, a   *)
(* prisma query otherwise), fuzzy-searched, the page is validated and the  *)
(* page either renders or redirects to the canonical page.                 *)
(*                                                                         *)
(* A string is a sequence of symbols.  A symbol is one character, or a     *)
(* run of characters that the code never looks inside (a tag name, a URL   *)
(* keyword, a percent escape).                                             *)
(***************************************************************************)
EXTENDS Integers, Sequences, FiniteSets, TLC

VARIABLES listing, DATABASE_URL, table, pc, req, prev, loc, outcome, fetch,
          slots, script, layout

vars ==
    <<listing, DATABASE_URL, table, pc, req, prev, loc, outcome, fetch, slots,
      script, layout>>

\* the state of the listing pages, and the state of the other two programs
pageVars ==
    <<listing, DATABASE_URL, table, pc, req, prev, loc, outcome, fetch, slots>>

otherVars == <<script, layout>>

(***************************************************************************)
(* Bounds of the model.                                                    *)
(***************************************************************************)
MaxPageLen == 2
MaxTagsLen == 3
MaxElemLen == 1
MaxSearchLen == 1
MaxRows == 11
MaxFound == 2

(***************************************************************************)
(* JavaScript numbers and array helpers.                                   *)
(***************************************************************************)
\* A number that may be NaN is a sequence: <<n>> for the integer n, and the
\* empty sequence for NaN.  Numbers that are never NaN are plain integers.
NaN == << >>

Num(n) == <<n>>

isNaN(x) == x = NaN

Min(a, b) == IF a < b THEN a ELSE b

Max(a, b) == IF a > b THEN a ELSE b

\* a - b and a * b with a possibly NaN and b an integer, NaN propagating
jsSub(a, b) == IF isNaN(a) THEN NaN ELSE Num(a[1] - b)

jsMul(a, b) == IF isNaN(a) THEN NaN ELSE Num(a[1] * b)

\* a !== b for an integer a and a possibly-NaN b: NaN differs from everything
strictNotEqual(a, b) == IF isNaN(b) THEN TRUE ELSE a # b[1]

\* Math.ceil(n / d) for n >= 0, d > 0
ceilDiv(n, d) == (n + d - 1) \div d

\* Array.prototype.slice's clamping of a relative index: NaN is 0, a negative
\* index counts from the end
relativeIndex(x, len) ==
    IF isNaN(x) THEN 0
    ELSE IF x[1] < 0 THEN Max(len + x[1], 0)
    ELSE Min(x[1], len)

\* slice with the end index taken as inclusive
sliceInclusiveEnd(arr, start, end) ==
    LET k == relativeIndex(start, Len(arr))
        f == Min(relativeIndex(end, Len(arr)) + 1, Len(arr))
    IN  IF f <= k THEN << >> ELSE SubSeq(arr, k + 1, f)

\* arr.slice(start, end), 0-based and half-open as in JavaScript
slice(arr, start, end) ==
    LET k == relativeIndex(start, Len(arr))
        f == relativeIndex(end, Len(arr))
    IN  IF f <= k THEN << >> ELSE SubSeq(arr, k + 1, f)

\* arr.some(P) and arr.filter(P) are written with \E and SelectSeq below.

Range(s) == {s[i] : i \in 1..Len(s)}

StringsUpTo(A, n) == UNION {[1..k -> A] : k \in 0..n}

(***************************************************************************)
(* parseInt(s, 10) and number formatting.                                  *)
(***************************************************************************)
DigitChars == <<"0", "1", "2", "3", "4", "5", "6", "7", "8", "9">>

isDigit(c) == \E d \in 1..10 : DigitChars[d] = c

digitValue(c) == (CHOOSE d \in 1..10 : DigitChars[d] = c) - 1

\* the number of leading decimal digits of s
RECURSIVE leadingDigits(_)
leadingDigits(s) ==
    IF s = << >> \/ ~isDigit(Head(s)) THEN 0 ELSE 1 + leadingDigits(Tail(s))

\* the value of a sequence of digits
RECURSIVE digitsValue(_)
digitsValue(s) ==
    IF s = << >> THEN 0
    ELSE 10 * digitsValue(SubSeq(s, 1, Len(s) - 1)) + digitValue(s[Len(s)])

\* parseInt(s, 10): an optional sign, then the longest prefix of digits;
\* NaN when there is no digit
parseInt(s) ==
    LET signed == s # << >> /\ Head(s) \in {"-", "+"}
        body == IF signed THEN Tail(s) ELSE s
        n == leadingDigits(body)
        v == digitsValue(SubSeq(body, 1, n))
    IN  IF n = 0 THEN NaN
        ELSE IF signed /\ Head(s) = "-" THEN Num(0 - v) ELSE Num(v)

\* `${n}` for an integer n >= 0
RECURSIVE numberToString(_)
numberToString(n) ==
    IF n < 10 THEN <<DigitChars[n + 1]>>
    ELSE numberToString(n \div 10) \o <<DigitChars[(n % 10) + 1]>>

(***************************************************************************)
(* String.prototype.split(','), Array.prototype.join(',') and              *)
(* encodeURIComponent / its decoding by the router.                        *)
(***************************************************************************)
RECURSIVE splitOn(_, _)
splitOn(s, sep) ==
    IF \A i \in 1..Len(s) : s[i] # sep
    THEN <<s>>
    ELSE LET i == CHOOSE j \in 1..Len(s) :
                     s[j] = sep /\ \A k \in 1..(j - 1) : s[k] # sep
         IN  <<SubSeq(s, 1, i - 1)>> \o splitOn(SubSeq(s, i + 1, Len(s)), sep)

\* s.split(',')
split(s) == splitOn(s, ",")

RECURSIVE join(_)
join(list) ==
    IF list = << >> THEN << >>
    ELSE IF Len(list) = 1 THEN list[1]
    ELSE list[1] \o <<",">> \o join(Tail(list))

\* encodeURIComponent on one symbol: reserved characters become escapes
encodeSymbol(c) ==
    CASE c = "," -> "%2C"
      [] c = "&" -> "%26"
      [] c = "=" -> "%3D"
      [] c = "CAT 1" -> "CAT%201"
      [] c = "CAT 2" -> "CAT%202"
      [] OTHER -> c

decodeSymbol(c) ==
    CASE c = "%2C" -> ","
      [] c = "%26" -> "&"
      [] c = "%3D" -> "="
      [] c = "CAT%201" -> "CAT 1"
      [] c = "CAT%202" -> "CAT 2"
      [] OTHER -> c

encodeURIComponent(s) == [i \in 1..Len(s) |-> encodeSymbol(s[i])]

decodeURIComponent(s) == [i \in 1..Len(s) |-> decodeSymbol(s[i])]

(***************************************************************************)
(* Items.  An item is a record: id, createdAt (a day number, larger is     *)
(* later), tags (the sequence of its tags' names), isClear, and text, a    *)
(* number that stands for the item's searchable text (title, description,  *)
(* author, comments), which only the fuzzy matcher reads.                  *)
(***************************************************************************)
Tag(name) == <<name>>

Item(id, createdAt, tags, isClear, text) ==
    [id |-> id, createdAt |-> createdAt, tags |-> tags, isClear |-> isClear,
     text |-> text]

\* the development-mode fixture of the past papers page
mockPastPapers ==
    << Item(1, 20231015, <<Tag("CAT 1"), Tag("A1"), Tag("DSA")>>, TRUE, 1),
       Item(2, 20231120, <<Tag("CAT 2"), Tag("B1"), Tag("CN")>>, TRUE, 2),
       Item(3, 20231210, <<Tag("FAT"), Tag("C2"), Tag("DBMS")>>, TRUE, 3),
       Item(4, 20221012, <<Tag("CAT 1"), Tag("D2"), Tag("OS")>>, TRUE, 4),
       Item(5, 20221118, <<Tag("CAT 2"), Tag("E1"), Tag("ML")>>, TRUE, 5),
       Item(6, 20221205, <<Tag("FAT"), Tag("F1"), Tag("SE")>>, TRUE, 6),
       Item(7, 20240115, <<Tag("CAT 1"), Tag("G2"), Tag("AI")>>, TRUE, 7),
       Item(8, 20240220, <<Tag("CAT 2"), Tag("A2"), Tag("WD")>>, TRUE, 8),
       Item(9, 20240310, <<Tag("FAT"), Tag("B2"), Tag("CG")>>, TRUE, 9),
       Item(10, 20230925, <<Tag("CAT 1"), Tag("C1"), Tag("CS")>>, TRUE, 10),
       Item(11, 20231030, <<Tag("CAT 2"), Tag("D1"), Tag("MAD")>>, TRUE, 11),
       Item(12, 20231215, <<Tag("FAT"), Tag("E2"), Tag("CC")>>, TRUE, 12),
       Item(13, 20240130, <<Tag("CAT 1"), Tag("F2"), Tag("BT")>>, TRUE, 13),
       Item(14, 20240225, <<Tag("CAT 2"), Tag("G1"), Tag("DS")>>, TRUE, 14),
       Item(15, 20240320, <<Tag("FAT"), Tag("A1"), Tag("IoT")>>, TRUE, 15) >>

\* the development-mode fixture of the forum page (a post has no isClear
\* column: the field is carried and never read for the forum)
mockForumPosts ==
    << Item(1, 0, <<Tag("CAT 1"), Tag("A1")>>, TRUE, 1),
       Item(2, 0, <<Tag("FAT"), Tag("B2")>>, TRUE, 2) >>

\* const pageSize = 9 (past papers), 5 (forum)
pageSize(l) == IF l = "past_papers" THEN 9 ELSE 5

\* SCORE_THRESHOLD = 0.6 (past papers), 0.8 (forum), in tenths
SCORE_THRESHOLD(l) == IF l = "past_papers" THEN 6 ELSE 8

(***************************************************************************)
(* validatePage                                                            *)
(***************************************************************************)
\* validatePage without the totalPages > 0 guard
validatePageNoGuard(page, totalPages) ==
    IF isNaN(page) \/ page[1] < 1 THEN 1
    ELSE IF page[1] > totalPages THEN totalPages
    ELSE page[1]

\* validatePage that steps a page beyond the last one back by one page
validatePageStepBack(page, totalPages) ==
    IF isNaN(page) \/ page[1] < 1 THEN 1
    ELSE IF page[1] > totalPages /\ totalPages > 0 THEN page[1] - 1
    ELSE page[1]

validatePage(page, totalPages) ==
    IF isNaN(page) \/ page[1] < 1 THEN 1
    ELSE IF page[1] > totalPages /\ totalPages > 0 THEN totalPages
    ELSE page[1]

(***************************************************************************)
(* performSearch.  Fuse is a library: what it reports for an item and a    *)
(* query is a function of the item's text, the query and the page's        *)
(* options, taken here as an arbitrary fixed one.  A score is in tenths,   *)
(* 0 (perfect) to 10.                                                      *)
(***************************************************************************)
\* what Fuse computes for an item: 0..10 is a score, 11 is no match
fuseRaw(l, query, item) ==
    (item.text + 5 * Len(query) + (IF l = "forum" THEN 3 ELSE 0)
       + Cardinality({i \in 1..Len(query) : query[i] = "&"})) % 12

fuseMatches(l, query, item) == fuseRaw(l, query, item) <= 10

fuseScore(l, query, item) == fuseRaw(l, query, item)

\* s with x inserted after the elements that score no more than x (stable)
RECURSIVE insertByScore(_, _, _, _)
insertByScore(l, query, s, x) ==
    IF s = << >> THEN <<x>>
    ELSE IF fuseScore(l, query, Head(s)) <= fuseScore(l, query, x)
         THEN <<Head(s)>> \o insertByScore(l, query, Tail(s), x)
         ELSE <<x>> \o s

RECURSIVE sortByScore(_, _, _)
sortByScore(l, query, s) ==
    IF s = << >> THEN << >>
    ELSE insertByScore(l, query,
                       sortByScore(l, query, SubSeq(s, 1, Len(s) - 1)),
                       s[Len(s)])

\* fuse.search with shouldSort off: the items Fuse matches, in dataset order
fuseSearchUnsorted(l, query, dataSet) ==
    SelectSeq(dataSet, LAMBDA it : fuseMatches(l, query, it))

\* fuse.search(...): the items Fuse matches, best score first, ties in
\* dataset order
fuseSearch(l, query, dataSet) ==
    sortByScore(l, query,
                SelectSeq(dataSet, LAMBDA it : fuseMatches(l, query, it)))

\* the threshold test with <= for <
keepResultInclusive(l, score) ==
    (IF score = 0 THEN 10 ELSE score) <= SCORE_THRESHOLD(l)

\* (fuseResult.score || 1) < SCORE_THRESHOLD: a score of 0 is falsy and
\* counts as 1, that is 10 tenths
keepResult(l, score) ==
    (IF score = 0 THEN 10 ELSE score) < SCORE_THRESHOLD(l)

performSearch(l, query, dataSet) ==
    SelectSeq(fuseSearch(l, query, dataSet),
              LAMBDA it : keepResult(l, fuseScore(l, query, it)))

\* options.keys of the page's performSearch
searchKeys(l) ==
    IF l = "past_papers" THEN <<"title", "tags.name">>
    ELSE <<"title", "author.name", "tags.name", "description",
           "comments.content", "comments.author.name">>

\* the expression performSearch hands to fuse.search: $or of the query on
\* every key, and of the query behind a quote on title
orClauses(l, query) ==
    [i \in 1..Len(searchKeys(l)) |->
        [key |-> searchKeys(l)[i], pattern |-> query]]
      \o <<[key |-> "title", pattern |-> <<"'">> \o query]>>

\* how Fuse reads a pattern under useExtendedSearch: a quote before a
\* non-empty text asks for the items that include the text, anything else
\* here is matched fuzzily
extendedSearchMode(pattern) ==
    IF Len(pattern) > 1 /\ Head(pattern) = "'" THEN "include" ELSE "fuzzy"

(***************************************************************************)
(* Request parameters.  A raw parameter is absent or a string; tags may    *)
(* also be a list of strings (a key given several times).                  *)
(***************************************************************************)
Absent == [given |-> FALSE, v |-> << >>]

Given(str) == [given |-> TRUE, v |-> str]

NoTags == [form |-> "absent", v |-> << >>]

TagsString(str) == [form |-> "string", v |-> <<str>>]

TagsArray(list) == [form |-> "array", v |-> list]

\* params.search || ''
parseSearch(p) == IF p.given THEN p.v ELSE << >>

\* parseInt(params.page || '1', 10)
parsePage(p) == parseInt(IF p.given /\ p.v # << >> THEN p.v ELSE <<"1">>)

\* parseTags splitting an empty string too
parseTagsNoEmptyCheck(p) ==
    IF p.form = "array" THEN p.v
    ELSE IF p.form = "string" THEN split(p.v[1])
    ELSE << >>

\* Array.isArray(params.tags) ? params.tags
\*     : (params.tags ? params.tags.split(',') : [])
parseTags(p) ==
    IF p.form = "array" THEN p.v
    ELSE IF p.form = "string" /\ p.v[1] # << >> THEN split(p.v[1])
    ELSE << >>

(***************************************************************************)
(* The tag filter: the development-mode filter callback, and the where     *)
(* clause of the prisma query with its ordering.                           *)
(***************************************************************************)
\* every requested tag must be on the paper (AND instead of OR)
everyTagMatches(tags, paper) ==
    \A i \in 1..Len(tags) : \E j \in 1..Len(paper.tags) : paper.tags[j] = tags[i]

\* only the first requested tag is looked for
firstTagMatches(tags, paper) ==
    \E j \in 1..Len(paper.tags) : paper.tags[j] = tags[1]

\* tags.some(tag => paper.tags.some(paperTag => paperTag.name === tag))
someTagMatches(tags, paper) ==
    \E i \in 1..Len(tags) : \E j \in 1..Len(paper.tags) : paper.tags[j] = tags[i]

\* mock.filter(paper => { if (tags.length === 0) return true; ... })
filterMock(mock, tags) ==
    SelectSeq(mock, LAMBDA paper :
                        IF Len(tags) = 0 THEN TRUE ELSE someTagMatches(tags, paper))

\* where: { isClear: true (past papers only),
\*          ...(tags.length > 0 && { tags: { some: { name: { in: tags } } } }) }
whereClause(l, tags, row) ==
    /\ (l = "past_papers" => row.isClear)
    /\ (Len(tags) > 0 =>
          \E j \in 1..Len(row.tags) : row.tags[j] \in Range(tags))

\* orderBy: { createdAt: 'desc' }
RECURSIVE orderByCreatedAtDesc(_)
orderByCreatedAtDesc(S) ==
    IF S = {} THEN << >>
    ELSE LET m == CHOOSE x \in S : \A y \in S : y.createdAt <= x.createdAt
         IN  <<m>> \o orderByCreatedAtDesc(S \ {m})

findMany(l, rows, tags) ==
    orderByCreatedAtDesc({row \in rows : whereClause(l, tags, row)})

(***************************************************************************)
(* Outcomes and the locals of a run of the page function.                  *)
(***************************************************************************)
NoOutcome ==
    [kind |-> "None", items |-> << >>, currentPage |-> 0, totalPages |-> 0,
     pagination |-> FALSE, url |-> << >>]

Render(items, currentPage, totalPages, pagination) ==
    [kind |-> "Render", items |-> items, currentPage |-> currentPage,
     totalPages |-> totalPages, pagination |-> pagination, url |-> << >>]

Redirect(url) ==
    [kind |-> "Redirect", items |-> << >>, currentPage |-> 0, totalPages |-> 0,
     pagination |-> FALSE, url |-> url]

\* the page function threw: the rejection of an awaited call leaves it
Thrown ==
    [kind |-> "Error", items |-> << >>, currentPage |-> 0, totalPages |-> 0,
     pagination |-> FALSE, url |-> << >>]

NoLocals ==
    [tagFiltered |-> << >>, searched |-> FALSE, filtered |-> << >>,
     totalPages |-> 0, validatedPage |-> 0, slicedPage |-> Num(0)]

\* `/past_papers?page=${validatedPage}${searchQuery}${tagsQuery}`
redirectUrl(l, validatedPage, search, tags) ==
    LET searchQuery == IF search # << >>
                       THEN <<"&", "search", "=">> \o encodeURIComponent(search)
                       ELSE << >>
        tagsQuery == IF Len(tags) > 0
                     THEN <<"&", "tags", "=">> \o encodeURIComponent(join(tags))
                     ELSE << >>
    IN  <<"/" \o l, "?", "page", "=">> \o numberToString(validatedPage)
          \o searchQuery \o tagsQuery

\* the router's reading of a URL's query into searchParams
queryValue(segments, key) ==
    LET hits == {i \in 1..Len(segments) :
                    /\ Len(segments[i]) >= 2
                    /\ segments[i][1] = key
                    /\ segments[i][2] = "="}
    IN  IF hits = {} THEN Absent
        ELSE LET i == CHOOSE j \in hits : \A k \in hits : j <= k
             IN  Given(decodeURIComponent(SubSeq(segments[i], 3, Len(segments[i]))))

searchParams(url) ==
    LET segments == splitOn(SubSeq(url, 3, Len(url)), "&")
        t == queryValue(segments, "tags")
    IN  [page |-> queryValue(segments, "page"),
         search |-> queryValue(segments, "search"),
         tags |-> IF t.given THEN TagsString(t.v) ELSE NoTags]

(***************************************************************************)
(* The page functions.  Each returns the locals of the run and its         *)
(* outcome.                                                                *)
(***************************************************************************)
\* pastPaperPage, development mode (no DATABASE_URL)
pastPaperPageDev(page, search, tags) ==
    LET l == "past_papers"
        filteredPastPapers == filterMock(mockPastPapers, tags)
        totalPages == ceilDiv(Len(filteredPastPapers), pageSize(l))
        paginatedPapers ==
            slice(filteredPastPapers,
                  jsMul(jsSub(page, 1), pageSize(l)),
                  jsMul(page, pageSize(l)))
        validatedPage == validatePage(page, totalPages)
    IN  [loc |-> [tagFiltered |-> filteredPastPapers,
                  searched |-> FALSE,
                  filtered |-> filteredPastPapers,
                  totalPages |-> totalPages,
                  validatedPage |-> validatedPage,
                  slicedPage |-> page],
         outcome |-> Render(paginatedPapers, validatedPage, totalPages, TRUE)]

\* forum, development mode (no DATABASE_URL)
forumDev(page, search, tags) ==
    LET l == "forum"
        filteredForumPosts == filterMock(mockForumPosts, tags)
        totalCount == Len(filteredForumPosts)
        totalPages == ceilDiv(totalCount, pageSize(l))
        validatedPage == validatePage(page, totalPages)
        startIndex == (validatedPage - 1) * pageSize(l)
        endIndex == startIndex + pageSize(l)
        paginatedPosts == slice(filteredForumPosts, Num(startIndex), Num(endIndex))
    IN  [loc |-> [tagFiltered |-> filteredForumPosts,
                  searched |-> FALSE,
                  filtered |-> filteredForumPosts,
                  totalPages |-> totalPages,
                  validatedPage |-> validatedPage,
                  slicedPage |-> Num(validatedPage)],
         outcome |-> Render(paginatedPosts, validatedPage, totalPages,
                            totalPages > 1)]

\* pastPaperPage with a database, from the result of findMany on: search,
\* count, validate, slice, then redirect or render
pastPaperPageAfterFetch(page, search, tags, fetched) ==
    LET l == "past_papers"
        filteredPastPapers ==
            IF search # << >> THEN performSearch(l, search, fetched) ELSE fetched
        totalCount == Len(filteredPastPapers)
        totalPages == ceilDiv(totalCount, pageSize(l))
        validatedPage == validatePage(page, totalPages)
        startIndex == (validatedPage - 1) * pageSize(l)
        endIndex == startIndex + pageSize(l)
        paginatedPastPapers ==
            slice(filteredPastPapers, Num(startIndex), Num(endIndex))
    IN  [loc |-> [tagFiltered |-> fetched,
                  searched |-> search # << >>,
                  filtered |-> filteredPastPapers,
                  totalPages |-> totalPages,
                  validatedPage |-> validatedPage,
                  slicedPage |-> Num(validatedPage)],
         outcome |-> IF strictNotEqual(validatedPage, page)
                     THEN Redirect(redirectUrl(l, validatedPage, search, tags))
                     ELSE Render(paginatedPastPapers, validatedPage, totalPages,
                                 totalPages > 1)]

\* forum with a database, from the result of findMany on
forumAfterFetch(page, search, tags, fetched) ==
    LET l == "forum"
        filteredForumPosts ==
            IF search # << >> THEN performSearch(l, search, fetched) ELSE fetched
        totalCount == Len(filteredForumPosts)
        totalPages == ceilDiv(totalCount, pageSize(l))
        validatedPage == validatePage(page, totalPages)
        startIndex == (validatedPage - 1) * pageSize(l)
        endIndex == startIndex + pageSize(l)
        paginatedForumPosts ==
            slice(filteredForumPosts, Num(startIndex), Num(endIndex))
    IN  [loc |-> [tagFiltered |-> fetched,
                  searched |-> search # << >>,
                  filtered |-> filteredForumPosts,
                  totalPages |-> totalPages,
                  validatedPage |-> validatedPage,
                  slicedPage |-> Num(validatedPage)],
         outcome |-> IF strictNotEqual(validatedPage, page)
                     THEN Redirect(redirectUrl(l, validatedPage, search, tags))
                     ELSE Render(paginatedForumPosts, validatedPage, totalPages,
                                 totalPages > 1)]

pageAfterFetch(l, page, search, tags, fetched) ==
    IF l = "past_papers" THEN pastPaperPageAfterFetch(page, search, tags, fetched)
    ELSE forumAfterFetch(page, search, tags, fetched)

devPage(l, page, search, tags) ==
    IF l = "past_papers" THEN pastPaperPageDev(page, search, tags)
    ELSE forumDev(page, search, tags)

(***************************************************************************)
(* Inputs of the model.                                                    *)
(***************************************************************************)
PageChars == {"-", "0", "1", "2", "9", "x"}

TagChars == {"CAT 1", "CAT 2", ","}

SearchChars == {"d", "&", "'"}

PageParams == {Absent} \cup {Given(str) : str \in StringsUpTo(PageChars, MaxPageLen)}

SearchParams ==
    {Absent} \cup {Given(str) : str \in StringsUpTo(SearchChars, MaxSearchLen)}

TagsParams ==
    {NoTags}
      \cup {TagsString(str) : str \in StringsUpTo(TagChars, MaxTagsLen)}
      \cup {TagsArray(<<a, b>>) : a, b \in StringsUpTo(TagChars, MaxElemLen)}

\* every page parameter, every search parameter and every tags parameter,
\* each with a few values of the other two
FewPages == {Given(<<"1">>), Given(<<"9">>)}

FewSearches == {Absent, Given(<<"d">>)}

FewTags == {NoTags, TagsString(<<"CAT 1">>), TagsString(<<"CAT 1", ",", "CAT 2">>)}

Inputs ==
    {[page |-> p, search |-> q, tags |-> t] :
        p \in PageParams, q \in FewSearches, t \in FewTags}
      \cup
    {[page |-> p, search |-> q, tags |-> t] :
        p \in FewPages, q \in SearchParams, t \in FewTags}
      \cup
    {[page |-> p, search |-> q, tags |-> t] :
        p \in FewPages, q \in FewSearches, t \in TagsParams}

\* the rows of the table: row i is the i-th created
Row(i) ==
    Item(i, i,
         CASE i % 4 = 1 -> <<Tag("CAT 1")>>
           [] i % 4 = 2 -> <<Tag("CAT 2")>>
           [] i % 4 = 3 -> <<Tag("CAT 1"), Tag("CAT 2")>>
           [] OTHER -> << >>,
         i % 6 # 0,
         ((i % 7) * 5) % 12)

Rows(n) == {Row(i) : i \in 1..n}

\* the table contents a deployment starts with: no row, or the first
\* MaxRows - 6 up to MaxRows rows created
Tables == {Rows(n) : n \in {0} \cup (MaxRows - 6)..MaxRows}

(***************************************************************************)
(* The state machine: one page (listing) of one deployment, with or        *)
(* without DATABASE_URL, serving one request at a time.                    *)
(***************************************************************************)
NoRequest ==
    [raw |-> [page |-> Absent, search |-> Absent, tags |-> NoTags],
     page |-> Num(1), search |-> << >>, tags |-> << >>]

NoPrev == [redirected |-> FALSE, search |-> << >>, tags |-> << >>]

\* the calls of findMany the request has made, and whether one was rejected
NoFetch == [calls |-> 0, rejected |-> FALSE]

\* fetchRealData before the script is run
NotRun ==
    [pc |-> "not run", found |-> << >>, failed |-> FALSE, disconnects |-> 0,
     result |-> "pending", report |-> "none"]

\* RootLayout before it is called
NotRendered ==
    [pc |-> "not run", AUTH_GOOGLE_ID |-> Absent, AUTH_GOOGLE_SECRET |-> Absent,
     protected_routes |-> "undefined", unprotected_routes |-> "undefined",
     session |-> [present |-> FALSE, user |-> FALSE, email |-> Absent],
     returned |-> [kind |-> "None", children |-> "undefined", to |-> << >>]]

\* the invocations of the page function that can be in progress at once
\* (used by SpecConcurrent only)
Slots == {1, 2}

\* an invocation: its position, its parameters, the table contents its
\* findMany read, its outcome, and whether its request followed a Redirect
IdleSlot ==
    [pc |-> "idle", req |-> NoRequest, snapshot |-> {}, outcome |-> NoOutcome,
     followed |-> FALSE]

Init ==
    /\ listing \in {"past_papers", "forum"}
    /\ DATABASE_URL \in BOOLEAN
    /\ table \in IF DATABASE_URL THEN Tables ELSE {{}}
    /\ pc = "idle"
    /\ req = NoRequest
    /\ prev = NoPrev
    /\ loc = NoLocals
    /\ outcome = NoOutcome
    /\ fetch = NoFetch
    /\ slots = [s \in Slots |-> IdleSlot]
    /\ script = NotRun
    /\ layout = NotRendered

\* the page function up to its first await on the database: parameters are
\* parsed; in development mode the whole function runs.  (forum first awaits
\* auth() for the user id, which only selects the votes joined to a post.)
Begin(raw) ==
    LET search == parseSearch(raw.search)
        page == parsePage(raw.page)
        tags == parseTags(raw.tags)
    IN  /\ req' = [raw |-> raw, page |-> page, search |-> search, tags |-> tags]
        /\ IF ~DATABASE_URL
           THEN LET r == devPage(listing, page, search, tags)
                IN  /\ loc' = r.loc
                    /\ outcome' = r.outcome
                    /\ pc' = "done"
                    /\ fetch' = NoFetch
           ELSE /\ loc' = NoLocals
                /\ outcome' = NoOutcome
                /\ pc' = "fetching"
                /\ fetch' = [calls |-> 1, rejected |-> FALSE]
        /\ UNCHANGED <<otherVars, listing, DATABASE_URL, table, slots>>

\* a client requests the page
Request(raw) ==
    /\ pc = "idle"
    /\ prev' = NoPrev
    /\ Begin(raw)

\* the client follows the redirect it was answered with
FollowRedirect ==
    /\ pc = "done"
    /\ outcome.kind = "Redirect"
    /\ prev' = [redirected |-> TRUE, search |-> req.search, tags |-> req.tags]
    /\ Begin(searchParams(outcome.url))

\* findMany resolves and the page function runs to its end
FetchReturns ==
    /\ pc = "fetching"
    /\ LET fetched == findMany(listing, table, req.tags)
           r == pageAfterFetch(listing, req.page, req.search, req.tags, fetched)
       IN  /\ loc' = r.loc
           /\ outcome' = r.outcome
    /\ pc' = "done"
    /\ UNCHANGED <<otherVars, listing, DATABASE_URL, table, req, prev, fetch, slots>>

\* a page function that caught the rejection and went on as if the query
\* had found no row
FetchFailsRendersEmpty ==
    /\ pc = "fetching"
    /\ LET r == pageAfterFetch(listing, req.page, req.search, req.tags, << >>)
       IN  /\ loc' = r.loc
           /\ outcome' = r.outcome
    /\ pc' = "done"
    /\ fetch' = [fetch EXCEPT !.rejected = TRUE]
    /\ UNCHANGED <<otherVars, listing, DATABASE_URL, table, req, prev, slots>>

\* findMany rejects: the await throws, no try surrounds it, and the page
\* function ends there with the error
FetchFails ==
    /\ pc = "fetching"
    /\ pc' = "failed"
    /\ outcome' = Thrown
    /\ fetch' = [fetch EXCEPT !.rejected = TRUE]
    /\ UNCHANGED <<otherVars, listing, DATABASE_URL, table, req, prev, loc, slots>>

\* the response (the page, the redirect or the error) is sent; nothing of
\* the request is kept
Respond ==
    /\ pc \in {"done", "failed"}
    /\ pc' = "idle"
    /\ fetch' = NoFetch
    /\ req' = NoRequest
    /\ prev' = NoPrev
    /\ loc' = NoLocals
    /\ outcome' = NoOutcome
    /\ UNCHANGED <<otherVars, listing, DATABASE_URL, table, slots>>

Next ==
    \/ \E raw \in Inputs : Request(raw)
    \/ FollowRedirect
    \/ FetchReturns
    \/ FetchFails
    \/ Respond

Spec == Init /\ [][Next]_vars

(***************************************************************************)
(* Several requests at once.  Each invocation of the page function has its *)
(* own parameters and locals; an await on findMany is where invocations    *)
(* interleave, with each other and with writers of the table.              *)
(***************************************************************************)
FewInputs ==
    {[page |-> p, search |-> q, tags |-> t] :
        p \in FewPages, q \in FewSearches, t \in FewTags}

ConcurrentTables == {Rows(n) : n \in {0} \cup (MaxRows - 1)..MaxRows}

InitConcurrent ==
    /\ listing \in {"past_papers", "forum"}
    /\ DATABASE_URL \in BOOLEAN
    /\ table \in IF DATABASE_URL THEN ConcurrentTables ELSE {{}}
    /\ pc = "idle"
    /\ req = NoRequest
    /\ prev = NoPrev
    /\ loc = NoLocals
    /\ outcome = NoOutcome
    /\ fetch = NoFetch
    /\ slots = [s \in Slots |-> IdleSlot]
    /\ script = NotRun
    /\ layout = NotRendered

\* an invocation that takes over the tags of an invocation that waits for
\* its findMany
SlotBeginSharingTags(s, raw) ==
    LET others == {t \in Slots \ {s} : slots[t].pc = "fetching"}
        search == parseSearch(raw.search)
        page == parsePage(raw.page)
        tags == IF others = {} THEN parseTags(raw.tags)
                ELSE slots[CHOOSE t \in others : TRUE].req.tags
        r == [raw |-> raw, page |-> page, search |-> search, tags |-> tags]
    IN  /\ slots[s].pc = "idle"
        /\ slots' =
             [slots EXCEPT ![s] =
                IF ~DATABASE_URL
                THEN [pc |-> "done", req |-> r, snapshot |-> {},
                      outcome |-> devPage(listing, page, search, tags).outcome,
                      followed |-> FALSE]
                ELSE [pc |-> "fetching", req |-> r, snapshot |-> {},
                      outcome |-> NoOutcome, followed |-> FALSE]]
        /\ UNCHANGED <<otherVars, listing, DATABASE_URL, table, pc, req, prev, loc,
                       outcome, fetch>>

\* an invocation starts: the page function up to its await on findMany, or
\* all of it in development mode
SlotBegin(s, raw) ==
    LET search == parseSearch(raw.search)
        page == parsePage(raw.page)
        tags == parseTags(raw.tags)
        r == [raw |-> raw, page |-> page, search |-> search, tags |-> tags]
    IN  /\ slots[s].pc = "idle"
        /\ slots' =
             [slots EXCEPT ![s] =
                IF ~DATABASE_URL
                THEN [pc |-> "done", req |-> r, snapshot |-> {},
                      outcome |-> devPage(listing, page, search, tags).outcome,
                      followed |-> FALSE]
                ELSE [pc |-> "fetching", req |-> r, snapshot |-> {},
                      outcome |-> NoOutcome, followed |-> FALSE]]
        /\ UNCHANGED <<otherVars, listing, DATABASE_URL, table, pc, req, prev, loc,
                       outcome, fetch>>

\* an invocation that resumes with the parameters of the invocation that
\* began last, as if they were kept in one place for all
SlotFetchReturnsSharedParams(s) ==
    LET others == {t \in Slots \ {s} : slots[t].pc # "idle"}
        r == IF others = {} THEN slots[s].req
             ELSE slots[CHOOSE t \in others : TRUE].req
        fetched == findMany(listing, table, r.tags)
    IN  /\ slots[s].pc = "fetching"
        /\ slots' =
             [slots EXCEPT ![s] =
                [pc |-> "done", req |-> slots[s].req, snapshot |-> table,
                 outcome |-> pageAfterFetch(listing, r.page, r.search, r.tags,
                                            fetched).outcome,
                 followed |-> slots[s].followed]]
        /\ UNCHANGED <<otherVars, listing, DATABASE_URL, table, pc, req, prev, loc,
                       outcome, fetch>>

\* the invocation's findMany resolves with what the table holds, and the
\* page function runs to its end
SlotFetchReturns(s) ==
    LET r == slots[s].req
        fetched == findMany(listing, table, r.tags)
    IN  /\ slots[s].pc = "fetching"
        /\ slots' =
             [slots EXCEPT ![s] =
                [pc |-> "done", req |-> r, snapshot |-> table,
                 outcome |-> pageAfterFetch(listing, r.page, r.search, r.tags,
                                            fetched).outcome,
                 followed |-> slots[s].followed]]
        /\ UNCHANGED <<otherVars, listing, DATABASE_URL, table, pc, req, prev, loc,
                       outcome, fetch>>

\* the client follows the Redirect the invocation answered with: a new
\* invocation for the URL's parameters (a Redirect comes from the database
\* branch only)
SlotFollowRedirect(s) ==
    LET raw == searchParams(slots[s].outcome.url)
        r == [raw |-> raw, page |-> parsePage(raw.page),
              search |-> parseSearch(raw.search), tags |-> parseTags(raw.tags)]
    IN  /\ slots[s].pc = "done"
        /\ slots[s].outcome.kind = "Redirect"
        /\ slots' =
             [slots EXCEPT ![s] =
                [pc |-> "fetching", req |-> r, snapshot |-> {},
                 outcome |-> NoOutcome, followed |-> TRUE]]
        /\ UNCHANGED <<otherVars, listing, DATABASE_URL, table, pc, req, prev, loc,
                       outcome, fetch>>

\* the invocation's findMany rejects
SlotFetchFails(s) ==
    /\ slots[s].pc = "fetching"
    /\ slots' = [slots EXCEPT ![s].pc = "failed", ![s].outcome = Thrown]
    /\ UNCHANGED <<otherVars, listing, DATABASE_URL, table, pc, req, prev, loc,
                   outcome, fetch>>

\* the invocation's response is sent
SlotRespond(s) ==
    /\ slots[s].pc \in {"done", "failed"}
    /\ slots' = [slots EXCEPT ![s] = IdleSlot]
    /\ UNCHANGED <<otherVars, listing, DATABASE_URL, table, pc, req, prev, loc,
                   outcome, fetch>>

\* another client of the database adds or removes the newest row, or
\* empties or refills the table
TableChanges ==
    /\ DATABASE_URL
    /\ table' \in ConcurrentTables \ {table}
    /\ UNCHANGED <<otherVars, listing, DATABASE_URL, pc, req, prev, loc, outcome, fetch,
                   slots>>

NextConcurrent ==
    \/ \E s \in Slots, raw \in FewInputs : SlotBegin(s, raw)
    \/ \E s \in Slots : SlotFollowRedirect(s)
    \/ \E s \in Slots : SlotFetchReturns(s)
    \/ \E s \in Slots : SlotFetchFails(s)
    \/ \E s \in Slots : SlotRespond(s)
    \/ TableChanges

SpecConcurrent == InitConcurrent /\ [][NextConcurrent]_vars

(***************************************************************************)
(* The script fetchRealData: five queries one after the other inside a     *)
(* try, a catch that returns null, a finally that disconnects, and the     *)
(* then callback of the caller.                                            *)
(***************************************************************************)
\* the findMany calls of the try block, in order
Queries == <<"pastPaper", "note", "forumPost", "subject", "tag">>

InitFetchRealData ==
    /\ listing = "past_papers"
    /\ DATABASE_URL = TRUE
    /\ table = {}
    /\ pc = "idle"
    /\ req = NoRequest
    /\ prev = NoPrev
    /\ loc = NoLocals
    /\ outcome = NoOutcome
    /\ fetch = NoFetch
    /\ slots = [s \in Slots |-> IdleSlot]
    /\ script = [NotRun EXCEPT !.pc = "querying"]
    /\ layout = NotRendered

\* the awaited query resolves with n rows; after the last one the try block
\* returns the data, and the finally block is next
QueryResolves(n) ==
    /\ script.pc = "querying"
    /\ script' = [script EXCEPT
                    !.found = Append(@, n),
                    !.pc = IF Len(script.found) + 1 = Len(Queries)
                           THEN "finally" ELSE "querying"]
    /\ UNCHANGED <<pageVars, layout>>

\* a rejection that no catch block takes: finally disconnects and the
\* promise of fetchRealData rejects, so the then callback is not called
QueryRejectsUncaught ==
    /\ script.pc = "querying"
    /\ script' = [script EXCEPT !.failed = TRUE, !.disconnects = @ + 1,
                                !.result = "rejected", !.pc = "exited"]
    /\ UNCHANGED <<pageVars, layout>>

\* the awaited query rejects: the catch block logs the error and returns
\* null, and the finally block is next
QueryRejects ==
    /\ script.pc = "querying"
    /\ script' = [script EXCEPT !.failed = TRUE, !.pc = "finally"]
    /\ UNCHANGED <<pageVars, layout>>

\* finally: await prisma.$disconnect(); then the promise of fetchRealData
\* resolves with what try or catch returned
Disconnect ==
    /\ script.pc = "finally"
    /\ script' = [script EXCEPT
                    !.disconnects = @ + 1,
                    !.result = IF script.failed THEN "null" ELSE "data",
                    !.pc = "settled"]
    /\ UNCHANGED <<pageVars, layout>>

\* .then((data) => { if (data) ... else ... })
ThenCallback ==
    /\ script.pc = "settled"
    /\ script' = [script EXCEPT
                    !.report = IF script.result = "data" THEN "success"
                               ELSE "failure",
                    !.pc = "exited"]
    /\ UNCHANGED <<pageVars, layout>>

NextFetchRealData ==
    \/ \E n \in 0..MaxFound : QueryResolves(n)
    \/ QueryRejects
    \/ Disconnect
    \/ ThenCallback

SpecFetchRealData == InitFetchRealData /\ [][NextFetchRealData]_vars

(***************************************************************************)
(* RootLayout: awaits auth() for the session, then returns the protected   *)
(* routes, the unprotected routes, or redirects.  An environment variable  *)
(* is unset, empty or a text; a route slot is undefined, null or content.  *)
(***************************************************************************)
\* JavaScript truthiness of a string that may be undefined
truthy(p) == p.given /\ p.v # << >>

EnvValues == {Absent, Given(<< >>), Given(<<"x">>)}

Sessions ==
    {[present |-> FALSE, user |-> FALSE, email |-> Absent],
     [present |-> TRUE, user |-> FALSE, email |-> Absent],
     [present |-> TRUE, user |-> TRUE, email |-> Absent],
     [present |-> TRUE, user |-> TRUE, email |-> Given(<< >>)],
     [present |-> TRUE, user |-> TRUE, email |-> Given(<<"a@vitstudent.ac.in">>)]}

\* session?.user?.email
optionalEmail(session) ==
    IF session.present /\ session.user THEN session.email ELSE Absent

\* bypass that needs both variables to be missing
isDevelopmentBothMissing(id, secret) == ~truthy(id) /\ ~truthy(secret)

\* !process.env.AUTH_GOOGLE_ID || !process.env.AUTH_GOOGLE_SECRET
isDevelopment(id, secret) == ~truthy(id) \/ ~truthy(secret)

\* the children of <body>: (session?.user?.email || isDevelopment)
\*     ? protected_routes ?? redirect("/") : unprotected_routes
RootLayout(session, id, secret, protected_routes, unprotected_routes) ==
    IF truthy(optionalEmail(session)) \/ isDevelopment(id, secret)
    THEN IF protected_routes \in {"undefined", "null"}
         THEN [kind |-> "Redirect", children |-> "undefined", to |-> <<"/">>]
         ELSE [kind |-> "Render", children |-> protected_routes, to |-> << >>]
    ELSE [kind |-> "Render", children |-> unprotected_routes, to |-> << >>]

InitRootLayout ==
    /\ listing = "past_papers"
    /\ DATABASE_URL = TRUE
    /\ table = {}
    /\ pc = "idle"
    /\ req = NoRequest
    /\ prev = NoPrev
    /\ loc = NoLocals
    /\ outcome = NoOutcome
    /\ fetch = NoFetch
    /\ slots = [s \in Slots |-> IdleSlot]
    /\ script = NotRun
    /\ \E id, secret \in EnvValues :
         \E p \in {"undefined", "null", "protected"} :
           \E u \in {"undefined", "unprotected"} :
             layout = [NotRendered EXCEPT
                         !.pc = "auth",
                         !.AUTH_GOOGLE_ID = id,
                         !.AUTH_GOOGLE_SECRET = secret,
                         !.protected_routes = p,
                         !.unprotected_routes = u]

\* auth() resolves with the session (or null) and RootLayout returns
AuthResolves(session) ==
    /\ layout.pc = "auth"
    /\ layout' = [layout EXCEPT
                    !.pc = "returned",
                    !.session = session,
                    !.returned = RootLayout(session, layout.AUTH_GOOGLE_ID,
                                            layout.AUTH_GOOGLE_SECRET,
                                            layout.protected_routes,
                                            layout.unprotected_routes)]
    /\ UNCHANGED <<pageVars, script>>

NextRootLayout == \E session \in Sessions : AuthResolves(session)

SpecRootLayout == InitRootLayout /\ [][NextRootLayout]_vars

(***************************************************************************)
(* Vocabulary of the claims.                                               *)
(***************************************************************************)
Done == pc = "done"

\* the validated page differs from the requested page
PageDiffers == isNaN(req.page) \/ req.page[1] # loc.validatedPage

\* the page number a redirect URL carries
RedirectPage(url) == parsePage(searchParams(url).page)

\* page p of list at size ps: positions (p-1)*ps up to, not including, p*ps
PageOf(list, p, ps) ==
    LET lo == (p - 1) * ps + 1
        hi == Min(p * ps, Len(list))
    IN  IF p < 1 \/ lo > hi THEN << >> ELSE [i \in 1..(hi - lo + 1) |-> list[lo + i - 1]]

(***************************************************************************)
(* C1: for every totalPages >= 0 and every integer page, the validated     *)
(* page lies in 1..max(totalPages, 1), and it is the page itself whenever  *)
(* 1 <= page <= totalPages.                                                *)
(***************************************************************************)
C1_ValidatedPageInRange ==
    Done /\ ~isNaN(req.page) =>
        /\ loc.validatedPage \in 1..Max(loc.totalPages, 1)
        /\ (1 <= req.page[1] /\ req.page[1] <= loc.totalPages
              => loc.validatedPage = req.page[1])

(***************************************************************************)
(* C2: in every run mode, a request whose validated page differs from the  *)
(* requested page is answered with a Redirect that carries the validated   *)
(* page, and not with a Render; a request whose validated page is the      *)
(* requested page is answered with a Render.                               *)
(***************************************************************************)
C2_RedirectIffPageDiffers ==
    Done =>
        IF PageDiffers
        THEN /\ outcome.kind = "Redirect"
             /\ RedirectPage(outcome.url) = Num(loc.validatedPage)
        ELSE outcome.kind = "Render"

(***************************************************************************)
(* C3: in every Render, the items shown are the slice of the post-filter   *)
(* list for the page reported as currentPage, and currentPage is the       *)
(* validated page.                                                         *)
(***************************************************************************)
C3_RenderShowsCurrentPage ==
    Done /\ outcome.kind = "Render" =>
        /\ outcome.currentPage = loc.validatedPage
        /\ outcome.items
             = PageOf(loc.filtered, outcome.currentPage, pageSize(listing))

(***************************************************************************)
(* C4: the request that follows a Redirect parses to the same search       *)
(* string and the same set of tag names as the request that was            *)
(* redirected, whatever the form of the original tags parameter.           *)
(***************************************************************************)
C4_RedirectPreservesSearchState ==
    prev.redirected =>
        /\ req.search = prev.search
        /\ Range(req.tags) = Range(prev.tags)

(***************************************************************************)
(* C5: requesting pages 1, 2, ..., totalPages in turn, with the search and *)
(* tags of the request at hand and against the same dataset, renders every *)
(* page, every page but the last holds pageSize items, and the rendered    *)
(* items concatenated are the filtered dataset.                            *)
(***************************************************************************)
\* the outcome of the request at hand when its page parameter is p
OutcomeForPage(p) ==
    LET page == parsePage(Given(numberToString(p)))
    IN  IF ~DATABASE_URL
        THEN devPage(listing, page, req.search, req.tags).outcome
        ELSE pageAfterFetch(listing, page, req.search, req.tags,
                            findMany(listing, table, req.tags)).outcome

RECURSIVE RenderedUpTo(_)
RenderedUpTo(p) ==
    IF p = 0 THEN << >> ELSE RenderedUpTo(p - 1) \o OutcomeForPage(p).items

C5_PagesReconstructFiltered ==
    Done =>
        /\ \A p \in 1..loc.totalPages : OutcomeForPage(p).kind = "Render"
        /\ \A p \in 1..(loc.totalPages - 1) :
               Len(OutcomeForPage(p).items) = pageSize(listing)
        /\ RenderedUpTo(loc.totalPages) = loc.filtered

\* a run with a last page that is not full
C5_Witness ==
    /\ Done
    /\ loc.totalPages >= 2
    /\ Len(loc.filtered) % pageSize(listing) # 0
    /\ outcome.kind = "Render"
    /\ outcome.currentPage = loc.totalPages

(***************************************************************************)
(* C6: validatePage returns 1 when the page is NaN or below 1, totalPages  *)
(* when the page is above totalPages and totalPages > 0, and the page      *)
(* itself in every other case.                                             *)
(***************************************************************************)
C6_ValidatePageCases ==
    Done =>
        /\ (isNaN(req.page) => loc.validatedPage = 1)
        /\ (~isNaN(req.page) =>
              /\ (req.page[1] < 1 => loc.validatedPage = 1)
              /\ (req.page[1] > loc.totalPages /\ loc.totalPages > 0
                    => loc.validatedPage = loc.totalPages)
              /\ (req.page[1] >= 1
                    /\ (req.page[1] <= loc.totalPages \/ loc.totalPages = 0)
                    => loc.validatedPage = req.page[1]))

\* a page beyond an empty result: the third case, outside 1..totalPages
C6_Witness ==
    /\ Done
    /\ loc.totalPages = 0
    /\ ~isNaN(req.page)
    /\ req.page[1] > 1
    /\ loc.validatedPage = req.page[1]

(***************************************************************************)
(* C7: with a non-empty tag filter the tag-filtered list holds exactly the *)
(* input items that carry at least one requested tag name, each once, in   *)
(* their input order.                                                      *)
(***************************************************************************)
\* the items the tag filter is given: the fixture, or the visible rows
InputItems ==
    IF ~DATABASE_URL
    THEN Range(IF listing = "past_papers" THEN mockPastPapers ELSE mockForumPosts)
    ELSE {row \in table : listing = "past_papers" => row.isClear}

TagNames(item) == Range(item.tags)

\* list keeps the order of the input: the fixture's order, or creation
\* time descending
InInputOrder(list) ==
    IF ~DATABASE_URL
    THEN LET mock == IF listing = "past_papers" THEN mockPastPapers
                     ELSE mockForumPosts
         IN  list = SelectSeq(mock, LAMBDA it : it \in Range(list))
    ELSE \A i, j \in 1..Len(list) :
             i < j => list[i].createdAt > list[j].createdAt

C7_TagFilterIsOr ==
    Done /\ Len(req.tags) > 0 =>
        /\ Range(loc.tagFiltered)
             = {it \in InputItems : TagNames(it) \cap Range(req.tags) # {}}
        /\ Cardinality(Range(loc.tagFiltered)) = Len(loc.tagFiltered)
        /\ InInputOrder(loc.tagFiltered)

\* two names requested; an item with one of them, an item with both and an
\* item with neither
C7_Witness ==
    /\ Done
    /\ Cardinality(Range(req.tags)) = 2
    /\ \E it \in Range(loc.tagFiltered) :
           Cardinality(TagNames(it) \cap Range(req.tags)) = 1
    /\ \E it \in Range(loc.tagFiltered) :
           Cardinality(TagNames(it) \cap Range(req.tags)) = 2
    /\ \E it \in InputItems : it \notin Range(loc.tagFiltered)

(***************************************************************************)
(* C8: with the tags parameter absent or empty, the tag-filter stage       *)
(* returns the input items unchanged: all of them, in their order.         *)
(***************************************************************************)
TagsAbsentOrEmpty ==
    \/ req.raw.tags.form = "absent"
    \/ req.raw.tags.form = "string" /\ req.raw.tags.v[1] = << >>

C8_EmptyTagFilterIsIdentity ==
    Done /\ TagsAbsentOrEmpty =>
        /\ Range(loc.tagFiltered) = InputItems
        /\ Cardinality(Range(loc.tagFiltered)) = Len(loc.tagFiltered)
        /\ InInputOrder(loc.tagFiltered)

\* an empty tags string against several tagged and untagged items
C8_Witness ==
    /\ Done
    /\ req.raw.tags.form = "string"
    /\ req.raw.tags.v[1] = << >>
    /\ Len(loc.tagFiltered) >= 3
    /\ \E it \in InputItems : TagNames(it) # {}

(***************************************************************************)
(* C9: every item performSearch returns was reported by the matcher with a *)
(* score strictly below the page's SCORE_THRESHOLD.                        *)
(***************************************************************************)
C9_SearchResultsBelowThreshold ==
    Done /\ loc.searched =>
        \A i \in 1..Len(loc.filtered) :
            /\ fuseMatches(listing, req.search, loc.filtered[i])
            /\ fuseScore(listing, req.search, loc.filtered[i])
                 < (IF listing = "past_papers" THEN 6 ELSE 8)

\* a search that keeps an item and drops one that scores the threshold
C9_Witness ==
    /\ Done
    /\ loc.searched
    /\ loc.filtered # << >>
    /\ \E it \in Range(loc.tagFiltered) :
           /\ fuseScore(listing, req.search, it)
                = (IF listing = "past_papers" THEN 6 ELSE 8)
           /\ it \notin Range(loc.filtered)

(***************************************************************************)
(* C10: for every request to either page, the fuzzy stage runs exactly     *)
(* when the search string is non-empty: an empty search passes the         *)
(* tag-filtered items through unchanged, and with a non-empty search every *)
(* rendered item is one the matcher accepted for the query.                *)
(***************************************************************************)
AcceptedByMatcher(item) ==
    /\ fuseMatches(listing, req.search, item)
    /\ fuseScore(listing, req.search, item)
         < (IF listing = "past_papers" THEN 6 ELSE 8)
    /\ fuseScore(listing, req.search, item) # 0

C10_FuzzyStageIffSearch ==
    Done =>
        /\ loc.searched <=> req.search # << >>
        /\ (req.search = << >> => loc.filtered = loc.tagFiltered)
        /\ (req.search # << >> /\ outcome.kind = "Render" =>
              \A i \in 1..Len(outcome.items) : AcceptedByMatcher(outcome.items[i]))

(***************************************************************************)
(* C11: whenever no item is left after filtering, whatever page was        *)
(* requested, totalPages is 0, the validated page is 1, and the request is *)
(* answered with a Render of no items and not with a Redirect.             *)
(***************************************************************************)
C11_EmptyResultRendersPageOne ==
    Done /\ loc.filtered = << >> =>
        /\ loc.totalPages = 0
        /\ loc.validatedPage = 1
        /\ outcome.kind = "Render"
        /\ outcome.items = << >>

(***************************************************************************)
(* C12: a request whose page parameter is missing, or does not parse to a  *)
(* number, is handled as a request for page 1: the validated page is 1, a  *)
(* Render shows the items of page 1, a Redirect leads to page 1, and the   *)
(* request that follows such a Redirect renders the items of page 1.       *)
(***************************************************************************)
PageMissingOrMalformed == ~req.raw.page.given \/ isNaN(req.page)

C12_MissingOrMalformedPageIsPageOne ==
    Done =>
        /\ PageMissingOrMalformed =>
             /\ loc.validatedPage = 1
             /\ outcome.kind \in {"Render", "Redirect"}
             /\ outcome.kind = "Render" =>
                  outcome.items = PageOf(loc.filtered, 1, pageSize(listing))
             /\ outcome.kind = "Redirect" => RedirectPage(outcome.url) = Num(1)
        /\ prev.redirected /\ req.page = Num(1) =>
             /\ outcome.kind = "Render"
             /\ outcome.items = PageOf(loc.filtered, 1, pageSize(listing))

(***************************************************************************)
(* C13: a request whose findMany was rejected has thrown: it has neither a *)
(* Render nor a Redirect outcome, and it called findMany once; no request  *)
(* calls findMany more than once.                                          *)
(***************************************************************************)
C13_FetchFailurePropagates ==
    /\ fetch.calls <= 1
    /\ fetch.rejected =>
         /\ pc = "failed"
         /\ outcome.kind \notin {"Render", "Redirect"}
         /\ outcome = Thrown
         /\ fetch.calls = 1

\* a request with tags and a search whose findMany was rejected
C13_Witness ==
    /\ fetch.rejected
    /\ pc = "failed"
    /\ req.tags # << >>
    /\ req.search # << >>

(***************************************************************************)
(* C14: whatever page value reaches the slice, the items of a Render are   *)
(* at most pageSize many and are the positions (page-1)*pageSize up to,    *)
(* not including, page*pageSize of the post-filter list, clipped to its    *)
(* length: no items when that range lies outside the list, as for a page   *)
(* below 1 or beyond the last page.                                        *)
(***************************************************************************)
C14_SliceIsClippedRange ==
    Done /\ outcome.kind = "Render" =>
        /\ Len(outcome.items) <= pageSize(listing)
        /\ outcome.items =
             IF isNaN(loc.slicedPage) THEN << >>
             ELSE PageOf(loc.filtered, loc.slicedPage[1], pageSize(listing))

(***************************************************************************)
(* C15: the totalPages either listing page reports is                      *)
(* ceil(totalCount / pageSize), where totalCount counts the items left     *)
(* after the tag filter and, when the request has a search query, the      *)
(* fuzzy search; totalPages is 0 exactly when no item is left.             *)
(***************************************************************************)
ItemsLeft ==
    IF req.search = << >> THEN Len(loc.tagFiltered)
    ELSE Cardinality({i \in 1..Len(loc.tagFiltered) :
                         AcceptedByMatcher(loc.tagFiltered[i])})

C15_TotalPagesIsCeiling ==
    Done =>
        /\ loc.totalPages * pageSize(listing) >= ItemsLeft
        /\ loc.totalPages * pageSize(listing) < ItemsLeft + pageSize(listing)
        /\ loc.totalPages = 0 <=> ItemsLeft = 0
        /\ outcome.kind = "Render" => outcome.totalPages = loc.totalPages

(***************************************************************************)
(* C16: the list performSearch returns is in ascending order of match      *)
(* score, and items of equal score are in the order they had in the        *)
(* dataset given to it.                                                    *)
(***************************************************************************)
PositionIn(list, x) == CHOOSE k \in 1..Len(list) : list[k] = x

C16_SearchResultsBestFirst ==
    Done /\ loc.searched =>
        \A i, j \in 1..Len(loc.filtered) :
            i < j =>
                LET si == fuseScore(listing, req.search, loc.filtered[i])
                    sj == fuseScore(listing, req.search, loc.filtered[j])
                IN  /\ si <= sj
                    /\ si = sj =>
                         PositionIn(loc.tagFiltered, loc.filtered[i])
                           < PositionIn(loc.tagFiltered, loc.filtered[j])

\* a search result with two items of one score, and with an item that the
\* dataset had after a worse-scoring one
C16_Witness ==
    /\ Done
    /\ loc.searched
    /\ \E i, j \in 1..Len(loc.filtered) :
           /\ i < j
           /\ fuseScore(listing, req.search, loc.filtered[i])
                = fuseScore(listing, req.search, loc.filtered[j])
    /\ \E i, j \in 1..Len(loc.filtered) :
           /\ i < j
           /\ PositionIn(loc.tagFiltered, loc.filtered[i])
                > PositionIn(loc.tagFiltered, loc.filtered[j])

(***************************************************************************)
(* C20: in every run mode the tag-filtered dataset the pipeline works on   *)
(* is in non-increasing order of creation time, and with no search query   *)
(* the items of every Render are in non-increasing order of creation time. *)
(***************************************************************************)
NewestFirst(list) ==
    \A i, j \in 1..Len(list) : i < j => list[i].createdAt >= list[j].createdAt

C20_NewestFirst ==
    Done =>
        /\ NewestFirst(loc.tagFiltered)
        /\ req.search = << >> /\ outcome.kind = "Render" =>
             NewestFirst(outcome.items)

(***************************************************************************)
(* C19: the tags parameter is read as a set of names: none when it is      *)
(* absent or empty, the comma-separated pieces of a string, the elements   *)
(* of a list; and the tag-filtered result is the same for the request's    *)
(* names given in reverse order, given twice over, or given as one         *)
(* comma-joined string, whenever that parameter denotes the same set.      *)
(***************************************************************************)
\* the pieces of str between commas
CommaSeparated(str) ==
    {SubSeq(str, ab[1], ab[2]) :
        ab \in {cd \in (1..(Len(str) + 1)) \X (0..Len(str)) :
                   /\ cd[1] <= cd[2] + 1
                   /\ \A k \in cd[1]..cd[2] : str[k] # ","
                   /\ (cd[1] = 1 \/ str[cd[1] - 1] = ",")
                   /\ (cd[2] = Len(str) \/ str[cd[2] + 1] = ",")}}

Reverse(s) == [i \in 1..Len(s) |-> s[Len(s) + 1 - i]]

\* the tag-filtered list the deployment gives for a tags parameter
TagFilteredFor(p) ==
    IF DATABASE_URL THEN findMany(listing, table, parseTags(p))
    ELSE filterMock(IF listing = "past_papers" THEN mockPastPapers
                    ELSE mockForumPosts,
                    parseTags(p))

SameNamesOtherwise ==
    {p \in {TagsArray(Reverse(req.tags)), TagsArray(req.tags \o req.tags),
            TagsString(join(req.tags))} :
        Range(parseTags(p)) = Range(req.tags)}

C19_TagsAreASet ==
    Done =>
        /\ TagsAbsentOrEmpty => req.tags = << >>
        /\ req.raw.tags.form = "string" /\ ~TagsAbsentOrEmpty =>
             Range(req.tags) = CommaSeparated(req.raw.tags.v[1])
        /\ req.raw.tags.form = "array" => req.tags = req.raw.tags.v
        /\ \A p \in SameNamesOtherwise : TagFilteredFor(p) = loc.tagFiltered

\* a list of two names that keeps some items and drops others, and whose
\* comma-joined string denotes the same names
C19_Witness ==
    /\ Done
    /\ req.raw.tags.form = "array"
    /\ Len(req.tags) = 2
    /\ req.tags[1] # req.tags[2]
    /\ TagsString(join(req.tags)) \in SameNamesOtherwise
    /\ loc.tagFiltered # << >>
    /\ loc.tagFiltered # TagFilteredFor(NoTags)
    /\ \E it \in Range(loc.tagFiltered) : req.tags[1] \notin Range(it.tags)

(***************************************************************************)
(* C17: two invocations that finished with the same page, search and tags  *)
(* parameters on the same table contents have the same outcome, whatever   *)
(* ran between or beside them.                                             *)
(***************************************************************************)
Finished(s) == slots[s].pc = "done"

C17_SameRequestSameOutcome ==
    \A s, t \in Slots :
        /\ Finished(s)
        /\ Finished(t)
        /\ slots[s].req.raw = slots[t].req.raw
        /\ slots[s].snapshot = slots[t].snapshot
        => slots[s].outcome = slots[t].outcome

\* two finished invocations of one request on one table contents, while the
\* table holds something else
C17_Witness ==
    /\ Finished(1)
    /\ Finished(2)
    /\ slots[1].req.raw = slots[2].req.raw
    /\ slots[1].req.tags # << >>
    /\ slots[1].snapshot = slots[2].snapshot
    /\ slots[1].snapshot # table

(***************************************************************************)
(* C18: under every interleaving, a finished invocation holds the          *)
(* parameters it was given, and its outcome is the outcome of running the  *)
(* page function alone with those parameters on the table contents its     *)
(* findMany read; and no step of an invocation changes the table.          *)
(***************************************************************************)
\* the page function run from start to end on given table contents
AloneOutcome(raw, rows) ==
    LET search == parseSearch(raw.search)
        page == parsePage(raw.page)
        tags == parseTags(raw.tags)
    IN  IF ~DATABASE_URL THEN devPage(listing, page, search, tags).outcome
        ELSE pageAfterFetch(listing, page, search, tags,
                            findMany(listing, rows, tags)).outcome

C18_RequestsAreIsolated ==
    /\ [](\A s \in Slots :
            Finished(s) =>
              /\ slots[s].req.page = parsePage(slots[s].req.raw.page)
              /\ slots[s].req.search = parseSearch(slots[s].req.raw.search)
              /\ slots[s].req.tags = parseTags(slots[s].req.raw.tags)
              /\ slots[s].outcome =
                   AloneOutcome(slots[s].req.raw, slots[s].snapshot))
    /\ [][slots' # slots => table' = table]_vars

\* an invocation finished while another, with other parameters, waits for
\* its findMany, and the table has changed since the first read it
C18_Witness ==
    /\ Finished(1)
    /\ slots[2].pc = "fetching"
    /\ slots[1].req.raw # slots[2].req.raw
    /\ slots[1].snapshot # table

(***************************************************************************)
(* C21: in a search, the title is matched by exact inclusion only when the *)
(* query starts with the quote marker, and then it is not matched          *)
(* approximately; a query without the marker is matched approximately      *)
(* only.                                                                   *)
(***************************************************************************)
StartsWithMarker(query) == query # << >> /\ Head(query) = "'"

TitleModes ==
    {extendedSearchMode(orClauses(listing, req.search)[i].pattern) :
        i \in {k \in 1..Len(orClauses(listing, req.search)) :
                  orClauses(listing, req.search)[k].key = "title"}}

C21_ExactOnlyBehindMarker ==
    Done /\ loc.searched =>
        /\ "include" \in TitleModes => StartsWithMarker(req.search)
        /\ StartsWithMarker(req.search) => "fuzzy" \notin TitleModes
        /\ ~StartsWithMarker(req.search) => TitleModes = {"fuzzy"}

(***************************************************************************)
(* C22: validating a validated page against the same totalPages gives the  *)
(* same page, and the request that follows a Redirect with the same search *)
(* and tags, on the unchanged table, is answered with a Render and not     *)
(* with another Redirect.                                                  *)
(***************************************************************************)
SameSearchAndTags ==
    /\ req.search = prev.search
    /\ Range(req.tags) = Range(prev.tags)

C22_RedirectsConverge ==
    Done =>
        /\ validatePage(Num(loc.validatedPage), loc.totalPages)
             = loc.validatedPage
        /\ prev.redirected /\ SameSearchAndTags => outcome.kind = "Render"

\* the request that followed a Redirect to a page beyond the first, with
\* tags, has rendered that page
C22_Witness ==
    /\ Done
    /\ prev.redirected
    /\ SameSearchAndTags
    /\ req.tags # << >>
    /\ outcome.kind = "Render"
    /\ outcome.currentPage > 1
    /\ outcome.items # << >>

(***************************************************************************)
(* C23: performSearch keeps an item Fuse matched if and only if the score  *)
(* Fuse reported for it is strictly below SCORE_THRESHOLD; an item with    *)
(* the perfect score 0 is kept.                                            *)
(***************************************************************************)
C23_KeptIffBelowThreshold ==
    Done /\ loc.searched =>
        \A i \in 1..Len(loc.tagFiltered) :
            LET it == loc.tagFiltered[i]
            IN  fuseMatches(listing, req.search, it) =>
                  (it \in Range(loc.filtered)
                     <=> fuseScore(listing, req.search, it)
                           < SCORE_THRESHOLD(listing))

(***************************************************************************)
(* C24: whenever a Render shows the pagination control, the currentPage    *)
(* given to it is at least 1 and at most totalPages, in every run mode and *)
(* also when the tag filter matches nothing.                               *)
(***************************************************************************)
C24_PaginationPageInRange ==
    Done /\ outcome.kind = "Render" /\ outcome.pagination =>
        /\ 1 <= outcome.currentPage
        /\ outcome.currentPage <= outcome.totalPages

(***************************************************************************)
(* C25: for every page, search and tags, the development branch of a       *)
(* listing page gives the outcome its database branch gives on the same    *)
(* dataset: the same Redirect, or a Render of the same items with the same *)
(* currentPage and totalPages.                                             *)
(***************************************************************************)
\* the outcome of the database branch on a table that holds the mock data
DatabaseBranchOnMock ==
    LET mock == IF listing = "past_papers" THEN mockPastPapers
                ELSE mockForumPosts
    IN  pageAfterFetch(listing, req.page, req.search, req.tags,
                       findMany(listing, Range(mock), req.tags)).outcome

C25_BranchesAgree ==
    Done /\ ~DATABASE_URL =>
        /\ outcome.kind = DatabaseBranchOnMock.kind
        /\ outcome.url = DatabaseBranchOnMock.url
        /\ outcome.items = DatabaseBranchOnMock.items
        /\ outcome.currentPage = DatabaseBranchOnMock.currentPage
        /\ outcome.totalPages = DatabaseBranchOnMock.totalPages

(***************************************************************************)
(* C26: a request that follows a Redirect is judged against the table      *)
(* contents its own findMany read, which may differ from those the         *)
(* redirected request read: it is answered with a Render only if its page  *)
(* is within 1..totalPages of those contents, or they leave no item and    *)
(* the page is 1, and with a further Redirect otherwise; and no Render     *)
(* reports a currentPage above max(totalPages, 1).                         *)
(***************************************************************************)
\* totalPages of the invocation's parameters on the table contents it read
TotalPagesRead(s) ==
    LET r == slots[s].req
    IN  pageAfterFetch(listing, r.page, r.search, r.tags,
                       findMany(listing, slots[s].snapshot, r.tags))
          .loc.totalPages

PageWithinRead(s) ==
    /\ ~isNaN(slots[s].req.page)
    /\ \/ slots[s].req.page[1] \in 1..TotalPagesRead(s)
       \/ TotalPagesRead(s) = 0 /\ slots[s].req.page[1] = 1

C26_FollowUpJudgedOnOwnSnapshot ==
    \A s \in Slots :
        Finished(s) =>
            /\ slots[s].followed =>
                 /\ slots[s].outcome.kind = "Render" => PageWithinRead(s)
                 /\ ~PageWithinRead(s) => slots[s].outcome.kind = "Redirect"
            /\ slots[s].outcome.kind = "Render" =>
                 slots[s].outcome.currentPage
                   <= Max(slots[s].outcome.totalPages, 1)

(***************************************************************************)
(* C27: no query failure leaves fetchRealData: when a query rejects, no    *)
(* later query is made, the promise resolves to null and the caller        *)
(* reports failure; when all five resolve, the promise resolves to the     *)
(* data and the caller reports success; and on both paths $disconnect has  *)
(* been called exactly once when the promise settles, not before the       *)
(* queries are over, and never twice.                                      *)
(***************************************************************************)
Settled == script.pc \in {"settled", "exited"}

C27_FailureCaughtAndDisconnected ==
    /\ script.result # "rejected"
    /\ script.disconnects <= 1
    /\ Settled => script.disconnects = 1
    /\ script.pc = "querying" =>
         script.disconnects = 0 /\ script.result = "pending"
    /\ script.failed =>
         /\ script.pc # "querying"
         /\ Len(script.found) < Len(Queries)
         /\ Settled => script.result = "null"
         /\ script.pc = "exited" => script.report = "failure"
    /\ ~script.failed /\ Settled =>
         /\ Len(script.found) = Len(Queries)
         /\ script.result = "data"
         /\ script.pc = "exited" => script.report = "success"

\* the third query rejected after two resolved, and the caller has reported
C27_Witness ==
    /\ script.pc = "exited"
    /\ script.failed
    /\ Len(script.found) = 2
    /\ script.disconnects = 1
    /\ script.report = "failure"

(***************************************************************************)
(* C28: RootLayout returns the protected routes only when the session has  *)
(* a user email or at least one of AUTH_GOOGLE_ID and AUTH_GOOGLE_SECRET   *)
(* is unset; when both are set and the session has no user email it        *)
(* returns the unprotected routes; and when access is granted but there is *)
(* no protected content it redirects to "/".                               *)
(***************************************************************************)
HasUserEmail ==
    /\ layout.session.present
    /\ layout.session.user
    /\ layout.session.email.given
    /\ layout.session.email.v # << >>

ShowsProtected ==
    /\ layout.returned.kind = "Render"
    /\ layout.returned.children = "protected"

ShowsUnprotected ==
    /\ layout.returned.kind = "Render"
    /\ layout.returned.children = layout.unprotected_routes

NoProtectedContent == layout.protected_routes \in {"undefined", "null"}

OneUnset == ~layout.AUTH_GOOGLE_ID.given \/ ~layout.AUTH_GOOGLE_SECRET.given

C28_ProtectedOnlyWithEmailOrUnset ==
    layout.pc = "returned" =>
        /\ ShowsProtected => HasUserEmail \/ OneUnset
        /\ ~OneUnset /\ ~HasUserEmail => ShowsUnprotected
        /\ (HasUserEmail \/ OneUnset) /\ NoProtectedContent =>
             layout.returned.kind = "Redirect" /\ layout.returned.to = <<"/">>

(***************************************************************************)
(* C28, amended: as C28, with a variable that is set to the empty string   *)
(* counted as unset: the protected routes are returned only when the       *)
(* session has a user email or one of the two variables is unset or empty; *)
(* when both hold a text and the session has no user email the unprotected *)
(* routes are returned; when access is granted without protected content   *)
(* the layout redirects to "/".                                            *)
(***************************************************************************)
OneUnsetOrEmpty ==
    \/ ~layout.AUTH_GOOGLE_ID.given
    \/ layout.AUTH_GOOGLE_ID.v = << >>
    \/ ~layout.AUTH_GOOGLE_SECRET.given
    \/ layout.AUTH_GOOGLE_SECRET.v = << >>

C28_ProtectedOnlyWithEmailOrUnsetOrEmpty ==
    layout.pc = "returned" =>
        /\ ShowsProtected => HasUserEmail \/ OneUnsetOrEmpty
        /\ ~OneUnsetOrEmpty /\ ~HasUserEmail => ShowsUnprotected
        /\ (HasUserEmail \/ OneUnsetOrEmpty) /\ NoProtectedContent =>
             layout.returned.kind = "Redirect" /\ layout.returned.to = <<"/">>

\* access granted only because one variable is missing, with no protected
\* content: the layout has redirected
C28_Witness ==
    /\ layout.pc = "returned"
    /\ ~HasUserEmail
    /\ layout.AUTH_GOOGLE_ID.given
    /\ layout.AUTH_GOOGLE_ID.v # << >>
    /\ ~layout.AUTH_GOOGLE_SECRET.given
    /\ NoProtectedContent
    /\ layout.returned.kind = "Redirect"

====
